---------------------------- MODULE Spec2Model ----------------------------
(***************************************************************************)
(* Model of fix_a11y.py: fix_button_type (one re.sub over a file's text),  *)
(* fix_file (read, transform, conditional write, report) and main (the     *)
(* sequential walk over the *.tsx files with the running total).           *)
(*                                                                         *)
(* A text is a sequence of tokens.  The regular expression                 *)
(*     <button(\s+)(?!type=)                                               *)
(* distinguishes only the literal "<button", whitespace characters, the    *)
(* literal "type=" and everything else, and the two literals cannot        *)
(* overlap, so each literal is one token, each whitespace character is one *)
(* token and "x" stands for any other character.                           *)
(***************************************************************************)
EXTENDS Naturals, Sequences, FiniteSets

VARIABLES
    disk,              \* disk[f]: the text of the f-th file rglob yields
    pre,               \* the tree as it was when the run started (history)
    tsx_file,          \* main: the loop variable, 0 before the first file
    total_fixed,       \* main: the running total
    pc,                \* the statement control is at
    content,           \* fix_file / fix_button_type: content
    original_content,  \* fix_file: original_content
    button_count,      \* fix_file: button_count
    calls,             \* the calls re.sub made to replacer, in order (history)
    ret,               \* the value fix_file returns
    out,               \* the lines printed to stdout
    err,               \* the lines printed to sys.stderr
    ops                \* the filesystem operations performed, in order (history)

vars == <<disk, pre, tsx_file, total_fixed, pc, content, original_content,
          button_count, calls, ret, out, err, ops>>

---------------------------------------------------------------------------
(* Bounds *)

\* longest text fix_button_type is applied to on its own
MaxLen == 6
\* size of the scanned tree: each *.tsx file counts for one plus the number
\* of tokens of its text
MaxTreeSize == 5

---------------------------------------------------------------------------
(* Tokens *)

BUTTON == "<button"
TYPE == "type="
VALUE == "\"button\""
Whitespace == {" ", "\n"}

\* the tokens texts are drawn from when fix_button_type is applied on its own
Alphabet == {BUTTON, " ", "\n", TYPE, "x"}
\* the tokens the files of a tree are drawn from
FileAlphabet == {BUTTON, " ", TYPE, "x"}

SeqsUpTo(S, n) == UNION {[1..k -> S] : k \in 0..n}

Max(S) == CHOOSE m \in S : \A k \in S : k <= m

RECURSIVE SumCounts(_)
SumCounts(lines) ==
    IF lines = <<>> THEN 0 ELSE Head(lines).count + SumCounts(Tail(lines))

---------------------------------------------------------------------------
(* fix_button_type *)

\* Length of the longest run of whitespace that starts at position p.
RunLen(s, p) ==
    Max({k \in 0..(Len(s) + 1 - p) : \A j \in p..(p + k - 1) : s[j] \in Whitespace})

\* The text at position p starts with type= : the lookahead (?!type=) fails.
AtType(s, p) == p <= Len(s) /\ s[p] = TYPE

\* pattern_literal_space: the pattern with a literal space in place of \s.
pattern_literal_space(s, i) ==
    IF i <= Len(s) /\ s[i] = BUTTON
    THEN {k \in 1..(Len(s) - i) :
            /\ \A j \in (i + 1)..(i + k) : s[j] = " "
            /\ ~AtType(s, i + 1 + k)}
    ELSE {}

\* pattern = r'<button(\s+)(?!type=)': the lengths of group 1 with which the
\* pattern matches at position i.
pattern(s, i) ==
    IF i <= Len(s) /\ s[i] = BUTTON
    THEN {k \in 1..RunLen(s, i + 1) : ~AtType(s, i + 1 + k)}
    ELSE {}

\* The match the engine finds at position i: \s+ is greedy and gives
\* characters back one at a time until the lookahead succeeds.  0: no match.
MatchAt(s, i) == IF pattern(s, i) = {} THEN 0 ELSE Max(pattern(s, i))

\* replacer: f'<button{match.group(1)}type="button" '
replacer(group1) == <<BUTTON>> \o group1 \o <<TYPE, VALUE, " ">>

\* re.sub(pattern, replacer, content) from position i on: the leftmost match
\* is replaced and the scan resumes after it; an unmatched character is copied.
RECURSIVE sub(_, _)
sub(s, i) ==
    IF i > Len(s)
    THEN [text |-> <<>>, calls |-> <<>>]
    ELSE LET k == MatchAt(s, i) IN
         IF k > 0
         THEN LET group1 == SubSeq(s, i + 1, i + k)
                  rest == sub(s, i + 1 + k)
              IN [text |-> replacer(group1) \o rest.text,
                  calls |-> <<[start |-> i, group1 |-> group1]>> \o rest.calls]
         ELSE LET rest == sub(s, i + 1)
              IN [text |-> <<s[i]>> \o rest.text, calls |-> rest.calls]

\* fix_button_type(content) -> (new_content, count); count is incremented
\* once in each call of replacer.
fix_button_type(s) ==
    LET r == sub(s, 1)
    IN [new_content |-> r.text, count |-> Len(r.calls), calls |-> r.calls]

---------------------------------------------------------------------------
(* fix_file and main: one run over the tree *)

\* The trees of size at most budget: the texts of the *.tsx files, in the
\* order in which rglob yields them.
RECURSIVE Trees(_)
Trees(budget) ==
    IF budget = 0
    THEN {<<>>}
    ELSE {<<>>} \cup
         UNION {{<<c>> \o t : c \in [1..k -> FileAlphabet],
                               t \in Trees(budget - 1 - k)} :
                  k \in 0..(budget - 1)}

\* The number of files rglob yields, and the files by their place in that order.
NFiles == Len(pre)
Files == 1..NFiles

Init ==
    /\ disk \in Trees(MaxTreeSize)
    /\ pre = disk
    /\ tsx_file = 0
    /\ total_fixed = 0
    /\ pc = "main"
    /\ content = <<>>
    /\ original_content = <<>>
    /\ button_count = 0
    /\ calls = <<>>
    /\ ret = 0
    /\ out = <<>>
    /\ err = <<>>
    /\ ops = <<>>

\* for tsx_file in src_dir.rglob('*.tsx'): the next file; fix_file is called.
main_for ==
    /\ pc = "main"
    /\ tsx_file < NFiles
    /\ tsx_file' = tsx_file + 1
    /\ pc' = "read"
    /\ UNCHANGED <<disk, pre, total_fixed, content, original_content,
                   button_count, calls, ret, out, err, ops>>

\* except_reraise: the handler lets the exception through; the run is aborted.
except_reraise(path) ==
    /\ err' = Append(err, [path |-> path])
    /\ ret' = 0
    /\ pc' = "raised"

\* except Exception as e: print(..., file=sys.stderr); return 0
except_Exception(path) ==
    /\ err' = Append(err, [path |-> path])
    /\ ret' = 0
    /\ pc' = "return"

\* content = filepath.read_text(encoding='utf-8'); original_content = content
read_text ==
    /\ pc = "read"
    /\ content' = disk[tsx_file]
    /\ original_content' = disk[tsx_file]
    /\ ops' = Append(ops, [op |-> "read", file |-> tsx_file])
    /\ pc' = "fix"
    /\ UNCHANGED <<disk, pre, tsx_file, total_fixed, button_count, calls,
                   ret, out, err>>

\* read_text raises (the file cannot be opened, or is not valid UTF-8): no
\* local of fix_file is bound.
read_text_fail ==
    /\ pc = "read"
    /\ ops' = Append(ops, [op |-> "read_fail", file |-> tsx_file])
    /\ except_Exception(tsx_file)
    /\ content' = <<>>
    /\ original_content' = <<>>
    /\ button_count' = 0
    /\ calls' = <<>>
    /\ UNCHANGED <<disk, pre, tsx_file, total_fixed, out>>

\* changed_always: the write is not guarded by the comparison.
changed_always(new, old) == TRUE

\* if content != original_content:
changed(new, old) == new # old

\* content, button_count = fix_button_type(content), then the comparison:
\* the write is next when the content changed, return 0 otherwise.
fix ==
    /\ pc = "fix"
    /\ LET r == fix_button_type(content) IN
        /\ content' = r.new_content
        /\ button_count' = r.count
        /\ calls' = r.calls
        /\ IF changed(r.new_content, original_content)
           THEN pc' = "write" /\ ret' = ret
           ELSE pc' = "return" /\ ret' = 0
    /\ UNCHANGED <<disk, pre, tsx_file, total_fixed, original_content, out,
                   err, ops>>

\* filepath.write_text(content, encoding='utf-8') returns.
write_text ==
    /\ pc = "write"
    /\ disk' = [disk EXCEPT ![tsx_file] = content]
    /\ ops' = Append(ops, [op |-> "write", file |-> tsx_file])
    /\ pc' = "print"
    /\ UNCHANGED <<pre, tsx_file, total_fixed, content, original_content,
                   button_count, calls, ret, out, err>>

\* What a write_text that raises can leave on disk.  write_text opens the file
\* for writing, which truncates it, and then writes the text: when the open
\* fails the file is as it was, when the write or the close fails the file
\* holds a proper prefix of the new text.
FailedWriteOutcomes(old, new) ==
    {old} \cup {SubSeq(new, 1, k) : k \in 0..(Len(new) - 1)}

\* write_text_fail_after_print: the "Fixed" line is printed before the write.
write_text_fail_after_print ==
    /\ pc = "write"
    /\ \E d \in FailedWriteOutcomes(disk[tsx_file], content) :
          disk' = [disk EXCEPT ![tsx_file] = d]
    /\ out' = Append(out, [line |-> "Fixed", path |-> tsx_file,
                           count |-> button_count])
    /\ ops' = Append(ops, [op |-> "write_fail", file |-> tsx_file])
    /\ except_Exception(tsx_file)
    /\ UNCHANGED <<pre, tsx_file, total_fixed, content, original_content,
                   button_count, calls>>

\* filepath.write_text raises.
write_text_fail ==
    /\ pc = "write"
    /\ \E d \in FailedWriteOutcomes(disk[tsx_file], content) :
          disk' = [disk EXCEPT ![tsx_file] = d]
    /\ ops' = Append(ops, [op |-> "write_fail", file |-> tsx_file])
    /\ except_Exception(tsx_file)
    /\ UNCHANGED <<pre, tsx_file, total_fixed, content, original_content,
                   button_count, calls, out>>

\* print(f"Fixed {filepath}: {button_count} button(s)"); return button_count
print_fixed ==
    /\ pc = "print"
    /\ out' = Append(out, [line |-> "Fixed", path |-> tsx_file,
                           count |-> button_count])
    /\ ret' = button_count
    /\ pc' = "return"
    /\ UNCHANGED <<disk, pre, tsx_file, total_fixed, content,
                   original_content, button_count, calls, err, ops>>

\* main_add_print_in_loop: the total line is printed inside the loop.
main_add_print_in_loop ==
    /\ pc = "return"
    /\ total_fixed' = total_fixed + ret
    /\ out' = Append(out, [line |-> "Total", path |-> 0,
                           count |-> total_fixed + ret])
    /\ pc' = "main"
    /\ UNCHANGED <<disk, pre, tsx_file, content, original_content,
                   button_count, calls, ret, err, ops>>

\* total_fixed += fix_file(tsx_file)
main_add ==
    /\ pc = "return"
    /\ total_fixed' = total_fixed + ret
    /\ pc' = "main"
    /\ UNCHANGED <<disk, pre, tsx_file, content, original_content,
                   button_count, calls, ret, out, err, ops>>

\* print(f"\nTotal buttons fixed: {total_fixed}") after the loop
main_print ==
    /\ pc = "main"
    /\ tsx_file = NFiles
    /\ out' = Append(out, [line |-> "Total", path |-> 0, count |-> total_fixed])
    /\ pc' = "done"
    /\ UNCHANGED <<disk, pre, tsx_file, total_fixed, content,
                   original_content, button_count, calls, ret, err, ops>>

Next ==
    \/ main_for
    \/ read_text
    \/ read_text_fail
    \/ fix
    \/ write_text
    \/ write_text_fail
    \/ print_fixed
    \/ main_add
    \/ main_print

Spec == Init /\ [][Next]_vars

\* The script is one thread of control and no statement of it waits: a
\* statement that can be executed is executed.
FairSpec == Spec /\ WF_vars(Next)

---------------------------------------------------------------------------
(* fix_button_type on its own, applied once and then again to its result *)

FixInit ==
    /\ content \in SeqsUpTo(Alphabet, MaxLen)
    /\ original_content = content
    /\ button_count = 0
    /\ calls = <<>>
    /\ pc = "start"
    /\ disk = <<>>
    /\ pre = <<>>
    /\ tsx_file = 0
    /\ total_fixed = 0
    /\ ret = 0
    /\ out = <<>>
    /\ err = <<>>
    /\ ops = <<>>

\* content, button_count = fix_button_type(content) at program point at,
\* leading to program point to.
apply(at, to) ==
    /\ pc = at
    /\ original_content' = content
    /\ LET r == fix_button_type(content) IN
        /\ content' = r.new_content
        /\ button_count' = r.count
        /\ calls' = r.calls
    /\ pc' = to
    /\ UNCHANGED <<disk, pre, tsx_file, total_fixed, ret, out, err, ops>>

fix_once == apply("start", "once")

fix_again == apply("once", "twice")

FixNext ==
    \/ fix_once
    \/ fix_again

FixSpec == FixInit /\ [][FixNext]_vars

---------------------------------------------------------------------------
(* Vocabulary of the properties *)

\* The occurrences of <button followed by at least one whitespace character.
ButtonsWithSpace(s) == {i \in 1..Len(s) : s[i] = BUTTON /\ RunLen(s, i + 1) >= 1}

\* Those whose whitespace run is directly followed by type= : the attribute
\* is already present.
AttributePresent(s) ==
    {i \in ButtonsWithSpace(s) : AtType(s, i + 1 + RunLen(s, i + 1))}

\* The qualifying occurrences: the whitespace run is not followed by type= .
Qualifying(s) == ButtonsWithSpace(s) \ AttributePresent(s)

\* s with type="button" and a space inserted after each position of P.
RECURSIVE InsertAfter(_, _, _)
InsertAfter(s, P, i) ==
    IF i > Len(s)
    THEN <<>>
    ELSE <<s[i]>> \o (IF i \in P THEN <<TYPE, VALUE, " ">> ELSE <<>>)
                  \o InsertAfter(s, P, i + 1)

\* s with the attribute inserted right after the whitespace run of every
\* qualifying occurrence.
Expected(s) == InsertAfter(s, {q + RunLen(s, q + 1) : q \in Qualifying(s)}, 1)

IsProperPrefix(p, s) == Len(p) < Len(s) /\ p = SubSeq(s, 1, Len(p))

\* The filesystem operations of the given kinds performed on file f.
OpsOf(f, kinds) == {i \in 1..Len(ops) : ops[i].file = f /\ ops[i].op \in kinds}

Visited(f) == OpsOf(f, {"read", "read_fail"}) # {}
ReadOk(f) == OpsOf(f, {"read"}) # {}
ReadFailed(f) == OpsOf(f, {"read_fail"}) # {}
WriteAttempted(f) == OpsOf(f, {"write", "write_fail"}) # {}
Written(f) == OpsOf(f, {"write"}) # {}
WriteFailed(f) == OpsOf(f, {"write_fail"}) # {}
Failed(f) == ReadFailed(f) \/ WriteFailed(f)

IsFixed(l) == l.line = "Fixed"
FixedLines == SelectSeq(out, IsFixed)
FixedFor(f) == {i \in 1..Len(out) : out[i].line = "Fixed" /\ out[i].path = f}
TotalLines == {i \in 1..Len(out) : out[i].line = "Total"}
Diagnostics(f) == {i \in 1..Len(err) : err[i].path = f}

\* Control is at a statement of the loop of main or of fix_file, which one of
\* the actions executes.
Running ==
    \/ pc = "main" /\ tsx_file <= NFiles
    \/ pc \in {"read", "fix", "write", "print", "return"} /\ tsx_file \in Files

\* What fix_file has returned and main has not added yet.
Pending == IF pc = "return" THEN ret ELSE 0

\* K and M of the run: the files of the tree that hold a qualifying
\* occurrence, and the qualifying occurrences of the first n files.
FilesToFix == {f \in Files : Qualifying(pre[f]) # {}}

RECURSIVE Insertions(_)
Insertions(n) ==
    IF n = 0 THEN 0 ELSE Cardinality(Qualifying(pre[n])) + Insertions(n - 1)

---------------------------------------------------------------------------
(* Properties of fix_button_type, under FixSpec *)

\* C1: applying fix_button_type to the result of a first application inserts
\* nothing: the count is 0 and the content is left as it was.
C1_Idempotent ==
    pc = "twice" =>
        /\ button_count = 0
        /\ calls = <<>>
        /\ content = original_content

\* C2: an occurrence of <button whose whitespace run, of any length, is
\* directly followed by type= is left untouched: replacer is not called for
\* it, so nothing is inserted at it and it is not counted.
C2_AttributePresentUntouched ==
    pc = "once" =>
        \A i \in AttributePresent(original_content) :
            \A c \in 1..Len(calls) : calls[c].start # i

\* C3: the output is the input with type="button" and a space inserted right
\* after the whole whitespace run of every qualifying occurrence, nothing else
\* changed, and the count is the number of qualifying occurrences.
C3_InsertedAtQualifying ==
    pc = "once" =>
        /\ content = Expected(original_content)
        /\ button_count = Cardinality(Qualifying(original_content))

\* C10: in the output of fix_button_type every <button followed by whitespace
\* has type= right after its maximal whitespace run.
C10_AttributeAfterEveryRun ==
    pc \in {"once", "twice"} =>
        \A i \in ButtonsWithSpace(content) :
            AtType(content, i + 1 + RunLen(content, i + 1))

\* C10 witness: a pass in which the pattern matched only a proper prefix of a
\* whitespace run, and one that matched a whole run.
C10_Witness ==
    /\ pc = "once"
    /\ \E c \in 1..Len(calls) :
          Len(calls[c].group1) < RunLen(original_content, calls[c].start + 1)
    /\ \E c \in 1..Len(calls) :
          Len(calls[c].group1) = RunLen(original_content, calls[c].start + 1)

---------------------------------------------------------------------------
(* Properties of a run, under Spec and FairSpec *)

\* C4 as stated: when fix_file returns for a file it has read, the file has
\* been rewritten on disk exactly when the transformed content differs from
\* the content read, and exactly when the insertion count is positive.
C4_WrittenIffChanged ==
    (pc = "return" /\ ReadOk(tsx_file)) =>
        /\ Written(tsx_file) <=> content # original_content
        /\ Written(tsx_file) <=> button_count > 0

\* C4 as amended: when fix_file returns for a file it has read, write_text
\* has been called exactly when the transformed content differs from the
\* content read, which is exactly when the insertion count is positive; a
\* write that returned left the transformed content on disk; a file with no
\* write, and a file whose read failed, is as it was before the run.
C4_WriteAttemptedIffChanged ==
    pc = "return" =>
        IF ReadOk(tsx_file)
        THEN /\ WriteAttempted(tsx_file) <=> content # original_content
             /\ WriteAttempted(tsx_file) <=> button_count > 0
             /\ Written(tsx_file) => disk[tsx_file] = content
             /\ ~WriteAttempted(tsx_file) => disk[tsx_file] = pre[tsx_file]
        ELSE ~WriteAttempted(tsx_file) /\ disk[tsx_file] = pre[tsx_file]

\* C4 witness: fix_file returns after a write that changed the file.
C4_Witness ==
    /\ pc = "return"
    /\ Written(tsx_file)
    /\ button_count > 0
    /\ disk[tsx_file] # pre[tsx_file]

\* C5: a file whose read or write fails produces exactly one diagnostic with
\* its path (and a file that does not fail none), contributes 0 to the running
\* total, and does not stop the run: until the total is printed control is at
\* a statement of main or fix_file that can be executed, and once it is printed
\* every file has been visited.
C5_FailureIsolated ==
    /\ \A f \in Files :
          Cardinality(Diagnostics(f)) = IF Failed(f) THEN 1 ELSE 0
    /\ \A f \in Files :
          (Failed(f) /\ pc = "return" /\ tsx_file = f) => ret = 0
    /\ \A f \in Files : Failed(f) => FixedFor(f) = {}
    /\ total_fixed + Pending = SumCounts(FixedLines)
    /\ Running \/ pc = "done"
    /\ pc = "done" => \A f \in Files : Visited(f)

\* C5 witness: the run is complete, the first file failed and a later file
\* was fixed and counted.
C5_Witness ==
    /\ pc = "done"
    /\ Failed(1)
    /\ \E f \in Files : f > 1 /\ FixedFor(f) # {}
    /\ total_fixed > 0

\* C6 as stated: a file whose processing ended in the error path is on disk as
\* it was before the run, has no "Fixed" line, and a write was only attempted
\* after that file had been read.
C6_UnchangedOnError ==
    \A f \in Files :
        /\ Failed(f) => (disk[f] = pre[f] /\ FixedFor(f) = {})
        /\ \A i \in OpsOf(f, {"write", "write_fail"}) :
              \E j \in OpsOf(f, {"read"}) : j < i

\* C6 as amended: a file whose read failed is on disk as it was before the
\* run and no write was attempted on it; a file whose write failed holds
\* either its content of before the run or a proper prefix of the transformed
\* content; in both cases the file has no "Fixed" line and fix_file returns 0;
\* a write is only attempted after that file has been read.
C6_ErrorPathState ==
    \A f \in Files :
        /\ ReadFailed(f) => (disk[f] = pre[f] /\ ~WriteAttempted(f))
        /\ WriteFailed(f) =>
              \/ disk[f] = pre[f]
              \/ IsProperPrefix(disk[f], fix_button_type(pre[f]).new_content)
        /\ Failed(f) => FixedFor(f) = {}
        /\ (Failed(f) /\ pc = "return" /\ tsx_file = f) => ret = 0
        /\ \A i \in OpsOf(f, {"write", "write_fail"}) :
              \E j \in OpsOf(f, {"read"}) : j < i

\* C6 witness: fix_file returns through the handler after a write that failed
\* and left the file different from what it was.
C6_Witness ==
    /\ pc = "return"
    /\ WriteFailed(tsx_file)
    /\ disk[tsx_file] # pre[tsx_file]
    /\ \E f \in Files : ReadFailed(f)

\* C7: the running total is the sum of the counts of the files reported as
\* fixed so far, and a complete run in which no file failed has printed K
\* "Fixed" lines and a total of M and has updated K files, K being the number
\* of files with a qualifying occurrence and M the number of such occurrences.
C7_RunAccounting ==
    /\ total_fixed + Pending = SumCounts(FixedLines)
    /\ (pc = "done" /\ \A f \in Files : ~Failed(f)) =>
          /\ Len(FixedLines) = Cardinality(FilesToFix)
          /\ out[Len(out)].count = Insertions(NFiles)
          /\ Cardinality({f \in Files : disk[f] # pre[f]}) =
                Cardinality(FilesToFix)

\* C8: a file with no qualifying occurrence stays as it was: its transformed
\* content is the content read, it is never written, no "Fixed" line is
\* printed for it and it adds nothing to the running total.
C8_NonMatchingFileUntouched ==
    \A f \in Files :
        Qualifying(pre[f]) = {} =>
            /\ disk[f] = pre[f]
            /\ ~WriteAttempted(f)
            /\ FixedFor(f) = {}
            /\ (pc \in {"write", "print", "return"} /\ tsx_file = f) =>
                  content = original_content
            /\ (pc = "return" /\ tsx_file = f) => ret = 0

\* What C9 says of every state: the operations on a file all come before the
\* operations on the next one, no file is read twice, no file is operated on
\* before main reaches it, and the total line is printed once, last, when the
\* run is over, every file having been read by then.
C9_OneFileAtATime ==
    /\ \A i, j \in 1..Len(ops) : i < j => ops[i].file <= ops[j].file
    /\ \A f \in Files : Cardinality(OpsOf(f, {"read", "read_fail"})) <= 1
    /\ \A i \in 1..Len(ops) : ops[i].file <= tsx_file
    /\ pc = "read" => ~Visited(tsx_file)
    /\ TotalLines = IF pc = "done" THEN {Len(out)} ELSE {}
    /\ pc = "done" =>
          \A f \in Files : Cardinality(OpsOf(f, {"read", "read_fail"})) = 1

\* C9: files are processed strictly one at a time, each exactly once, and the
\* run always ends, the total line printed once after the last file, whatever
\* was fixed and whatever failed.
C9_SequentialAndTerminates == [](C9_OneFileAtATime) /\ <>[](pc = "done")

\* C9 witness: a complete run in which one file failed and another was fixed.
C9_Witness ==
    /\ pc = "done"
    /\ \E f \in Files : Failed(f)
    /\ \E f \in Files : FixedFor(f) # {}
    /\ TotalLines = {Len(out)}

===========================================================================
